---- MODULE Spec2Model ----
(***************************************************************************)
(* Model of docker-registry-cleaner (src/main.go): the registry client    *)
(* operations, the timestamp resolution cascade of GetImageCreated, the    *)
(* per-repository pipeline of CleanupRepository and the loop of main.      *)
(*                                                                         *)
(* Repositories and tags are named by their position in the catalog and    *)
(* in the tag list (1, 2, ...).  A timestamp is an integer; ZeroTime is    *)
(* the zero value of time.Time, older than every real timestamp.           *)
(* time.Now() is any value of 1..MaxTime.  The registry is the             *)
(* environment: every response is chosen nondeterministically when the     *)
(* request is made.                                                        *)
(***************************************************************************)
EXTENDS Integers, Sequences, FiniteSets, TLC

VARIABLES
    pc,            \* control point of main / CleanupRepository
    keepLast,      \* the keepLast argument of CleanupRepository
    repositories,  \* result of GetRepositories
    repoIdx,       \* position of the main loop in repositories
    tags,          \* result of GetTags for the current repository
    tagIdx,        \* position of the tag loop
    images,        \* the images slice
    plan,          \* status of every entry of images after the sort
    toDelete,      \* images[keepLast:]
    delIdx,        \* position of the delete loop
    ret,           \* value returned by the last CleanupRepository call
    results,       \* values returned by the CleanupRepository calls of the run
    requests,      \* requests issued by the current CleanupRepository call
    headFailed,    \* tags of the current repository whose HEAD response was no success
    delFailed,     \* a DeleteManifest call of the current repository returned an error
    call,          \* one call of GetImageCreated: its inputs and its result
    catalog,       \* the response to the catalog request of main
    createdErr,    \* GetImageCreated returned an error in the last tag loop iteration
    del            \* one call of DeleteManifest: the responses and its result

vars == <<pc, keepLast, repositories, repoIdx, tags, tagIdx, images, plan,
          toDelete, delIdx, ret, results, requests, headFailed, delFailed, call, catalog, createdErr, del>>

(***************************************************************************)
(* Bounds and program constants                                            *)
(***************************************************************************)
MaxRepos == 2
MaxRunTags == 2
MaxTags == 3
MaxTime == 2

DefaultKeepLast == 2
DigestPrefixLen == 12
ZeroTime == 0

StatusOK == 200
StatusAccepted == 202
StatusUnauthorized == 401
StatusForbidden == 403
StatusNotFound == 404
StatusMethodNotAllowed == 405
StatusInternalServerError == 500

\* CleanupRepository takes keepLast as an argument; main passes
\* DefaultKeepLast.  The values below cover a negative one and zero.
KeepLastValues == (0 - 1)..DefaultKeepLast
Times == ZeroTime..MaxTime
NowValues == 1..MaxTime

\* The values of the Docker-Content-Digest header: a digest of the usual
\* form and one of fewer than DigestPrefixLen characters.
LongDigest == "sha256:aaaaaaaaaaaaaaaa"
ShortDigest == "sha1:abc"
Digests == {LongDigest, ShortDigest}

Min(a, b) == IF a < b THEN a ELSE b

(***************************************************************************)
(* Responses of the registry                                               *)
(***************************************************************************)
\* HEAD /v2/<repo>/manifests/<tag>: a failed request, or a status and the
\* Docker-Content-Digest header ("" when the header is absent).
HeadResponses ==
    {[failed |-> TRUE, status |-> 0, header |-> ""],
     [failed |-> FALSE, status |-> StatusNotFound, header |-> ""],
     [failed |-> FALSE, status |-> StatusNotFound, header |-> LongDigest]}
    \cup [failed : {FALSE}, status : {StatusOK}, header : {""} \cup Digests]

\* The v1Compatibility string of a history entry: whether it is JSON of the
\* right shape, and its "created" field when it has one.
V1Compatibilities ==
    {[parses |-> FALSE, hasCreated |-> FALSE, created |-> ZeroTime],
     [parses |-> TRUE, hasCreated |-> FALSE, created |-> ZeroTime]}
    \cup [parses : {TRUE}, hasCreated : {TRUE}, created : 1..MaxTime]

V1Bodies ==
    {[decodes |-> FALSE, history |-> <<>>], [decodes |-> TRUE, history |-> <<>>]}
    \cup {[decodes |-> TRUE, history |-> <<c>>] : c \in V1Compatibilities}

EmptyV1Body == [decodes |-> FALSE, history |-> <<>>]

V1Responses ==
    {[failed |-> TRUE, status |-> 0, body |-> EmptyV1Body]}
    \cup [failed : {FALSE}, status : {StatusNotFound, StatusInternalServerError},
          body : {EmptyV1Body}]
    \cup [failed : {FALSE}, status : {StatusOK}, body : V1Bodies]

V2Bodies ==
    [decodes : {FALSE}, configDigest : {""}]
    \cup [decodes : {TRUE}, configDigest : {"", "sha256:cccccccccccccccc"}]

EmptyV2Body == [decodes |-> FALSE, configDigest |-> ""]

V2Responses ==
    {[failed |-> TRUE, status |-> 0, body |-> EmptyV2Body]}
    \cup [failed : {FALSE}, status : {StatusNotFound, StatusInternalServerError},
          body : {EmptyV2Body}]
    \cup [failed : {FALSE}, status : {StatusOK}, body : V2Bodies]

BlobBodies ==
    {[decodes |-> FALSE, hasCreated |-> FALSE, created |-> ZeroTime],
     [decodes |-> TRUE, hasCreated |-> FALSE, created |-> ZeroTime]}
    \cup [decodes : {TRUE}, hasCreated : {TRUE}, created : 1..MaxTime]

EmptyBlobBody == [decodes |-> FALSE, hasCreated |-> FALSE, created |-> ZeroTime]

BlobResponses ==
    {[failed |-> TRUE, status |-> 0, body |-> EmptyBlobBody]}
    \cup [failed : {FALSE}, status : {StatusNotFound, StatusInternalServerError},
          body : {EmptyBlobBody}]
    \cup [failed : {FALSE}, status : {StatusOK}, body : BlobBodies]

\* DELETE /v2/<repo>/manifests/<digest>: a failed request or a status.
DeleteResponses ==
    {[failed |-> TRUE, status |-> 0]}
    \cup [failed : {FALSE},
          status : {StatusOK, StatusAccepted, StatusUnauthorized, StatusForbidden,
                    StatusNotFound, StatusMethodNotAllowed, StatusInternalServerError}]

(***************************************************************************)
(* GetManifestDigest                                                       *)
(***************************************************************************)
\* The registry gave no digest for the tag: the request failed, the status
\* is not 200, or the Docker-Content-Digest header is absent.
NoDigest(resp) == resp.failed \/ resp.status # StatusOK \/ resp.header = ""

\* Variant: the status of the response is not looked at.
GetManifestDigest_AnyStatus(resp) ==
    IF resp.failed THEN [digest |-> "", err |-> TRUE]
    ELSE IF resp.header = "" THEN [digest |-> "", err |-> TRUE]
    ELSE [digest |-> resp.header, err |-> FALSE]

GetManifestDigest(resp) ==
    IF resp.failed THEN [digest |-> "", err |-> TRUE]
    ELSE IF resp.status # StatusOK THEN [digest |-> "", err |-> TRUE]
    ELSE IF resp.header = "" THEN [digest |-> "", err |-> TRUE]
    ELSE [digest |-> resp.header, err |-> FALSE]

(***************************************************************************)
(* GetImageCreated                                                         *)
(***************************************************************************)
\* json.Unmarshal of a v1Compatibility string into V1Compatibility: a field
\* the JSON does not carry keeps its zero value.
UnmarshalV1Compatibility(c) ==
    IF c.parses
    THEN [err |-> FALSE, Created |-> IF c.hasCreated THEN c.created ELSE ZeroTime]
    ELSE [err |-> TRUE, Created |-> ZeroTime]

\* Decode of the config blob into ConfigResponse.
DecodeConfig(b) ==
    IF b.decodes
    THEN [err |-> FALSE, Created |-> IF b.hasCreated THEN b.created ELSE ZeroTime]
    ELSE [err |-> TRUE, Created |-> ZeroTime]

\* The schema-v1 strategy on the response of the first request.
V1Strategy(v1) ==
    IF /\ v1.status = StatusOK
       /\ v1.body.decodes
       /\ Len(v1.body.history) > 0
       /\ ~UnmarshalV1Compatibility(v1.body.history[1]).err
    THEN [ok |-> TRUE, Created |-> UnmarshalV1Compatibility(v1.body.history[1]).Created]
    ELSE [ok |-> FALSE, Created |-> ZeroTime]

\* The config blob strategy on the response of the blob request.
BlobStrategy(blob) ==
    IF /\ ~blob.failed
       /\ blob.status = StatusOK
       /\ ~DecodeConfig(blob.body).err
    THEN [ok |-> TRUE, Created |-> DecodeConfig(blob.body).Created]
    ELSE [ok |-> FALSE, Created |-> ZeroTime]

Result(created, err, warned, reqs) ==
    [created |-> created, err |-> err, warned |-> warned, reqs |-> reqs]

\* Variant: a failed blob request is returned as an error.
GetImageCreated_BlobError(urlValid, v1, v2, blob, now) ==
    IF ~urlValid THEN Result(ZeroTime, TRUE, FALSE, <<>>)
    ELSE IF v1.failed THEN Result(ZeroTime, TRUE, FALSE, <<"v1">>)
    ELSE IF V1Strategy(v1).ok
    THEN Result(V1Strategy(v1).Created, FALSE, FALSE, <<"v1">>)
    ELSE IF v2.failed THEN Result(ZeroTime, TRUE, FALSE, <<"v1", "v2">>)
    ELSE IF v2.status = StatusOK /\ v2.body.decodes /\ v2.body.configDigest # ""
    THEN IF blob.failed THEN Result(ZeroTime, TRUE, FALSE, <<"v1", "v2", "blob">>)
         ELSE IF BlobStrategy(blob).ok
         THEN Result(BlobStrategy(blob).Created, FALSE, FALSE, <<"v1", "v2", "blob">>)
         ELSE Result(now, FALSE, TRUE, <<"v1", "v2", "blob">>)
    ELSE Result(now, FALSE, TRUE, <<"v1", "v2">>)

\* Variant: the config blob is preferred to the schema-v1 history when both
\* carry a timestamp.
GetImageCreated_PreferBlob(urlValid, v1, v2, blob, now) ==
    IF ~urlValid THEN Result(ZeroTime, TRUE, FALSE, <<>>)
    ELSE IF v1.failed THEN Result(ZeroTime, TRUE, FALSE, <<"v1">>)
    ELSE IF v2.failed
    THEN IF V1Strategy(v1).ok
         THEN Result(V1Strategy(v1).Created, FALSE, FALSE, <<"v1", "v2">>)
         ELSE Result(ZeroTime, TRUE, FALSE, <<"v1", "v2">>)
    ELSE IF /\ v2.status = StatusOK /\ v2.body.decodes /\ v2.body.configDigest # ""
            /\ BlobStrategy(blob).ok
    THEN Result(BlobStrategy(blob).Created, FALSE, FALSE, <<"v1", "v2", "blob">>)
    ELSE IF V1Strategy(v1).ok
    THEN Result(V1Strategy(v1).Created, FALSE, FALSE, <<"v1", "v2">>)
    ELSE Result(now, FALSE, TRUE, <<"v1", "v2">>)

\* urlValid: http.NewRequest accepts the manifest URL; v1, v2, blob: what the
\* registry answers to each request if it is made; now: time.Now().
GetImageCreated(urlValid, v1, v2, blob, now) ==
    IF ~urlValid THEN Result(ZeroTime, TRUE, FALSE, <<>>)
    ELSE IF v1.failed THEN Result(ZeroTime, TRUE, FALSE, <<"v1">>)
    ELSE IF V1Strategy(v1).ok
    THEN Result(V1Strategy(v1).Created, FALSE, FALSE, <<"v1">>)
    ELSE IF v2.failed THEN Result(ZeroTime, TRUE, FALSE, <<"v1", "v2">>)
    ELSE IF v2.status = StatusOK /\ v2.body.decodes /\ v2.body.configDigest # ""
    THEN IF BlobStrategy(blob).ok
         THEN Result(BlobStrategy(blob).Created, FALSE, FALSE, <<"v1", "v2", "blob">>)
         ELSE Result(now, FALSE, TRUE, <<"v1", "v2", "blob">>)
    ELSE Result(now, FALSE, TRUE, <<"v1", "v2">>)

(***************************************************************************)
(* DeleteManifest                                                          *)
(***************************************************************************)
\* Variant: a manifest that is already gone counts as deleted.
DeleteManifest_NotFoundIsSuccess(resp) ==
    IF resp.failed THEN "request failed"
    ELSE IF resp.status = StatusAccepted \/ resp.status = StatusOK THEN "nil"
    ELSE IF resp.status = StatusMethodNotAllowed THEN "delete unsupported"
    ELSE IF resp.status = StatusNotFound THEN "nil"
    ELSE IF resp.status = StatusUnauthorized THEN "unauthorized"
    ELSE IF resp.status = StatusForbidden THEN "forbidden"
    ELSE "status"

\* The error DeleteManifest returns for the response to its DELETE request.
DeleteManifest(resp) ==
    IF resp.failed THEN "request failed"
    ELSE IF resp.status = StatusAccepted \/ resp.status = StatusOK THEN "nil"
    ELSE IF resp.status = StatusMethodNotAllowed THEN "delete unsupported"
    ELSE IF resp.status = StatusNotFound THEN "not found"
    ELSE IF resp.status = StatusUnauthorized THEN "unauthorized"
    ELSE IF resp.status = StatusForbidden THEN "forbidden"
    ELSE "status"

\* One call of DeleteManifest against a registry that would answer the
\* responses in order: rc.Client.Do is called once, and the error is that
\* of the first response.
DeleteManifestCall(responses) == [err |-> DeleteManifest(responses[1]), sent |-> 1]

(***************************************************************************)
(* GetRepositories and GetTags                                             *)
(***************************************************************************)
\* GET /v2/_catalog and GET /v2/<repo>/tags/list: a failed request, or a
\* status and a body that decodes or not and lists n names.
ListResponses(maxLen) ==
    {[failed |-> TRUE, status |-> 0, decodes |-> FALSE, n |-> 0],
     [failed |-> FALSE, status |-> StatusInternalServerError, decodes |-> FALSE, n |-> 0],
     [failed |-> FALSE, status |-> StatusOK, decodes |-> FALSE, n |-> 0]}
    \cup [failed : {FALSE}, status : {StatusOK}, decodes : {TRUE}, n : 0..maxLen]

Names(n) == [i \in 1..n |-> i]

\* Variant: a catalog body that does not decode is taken for an empty catalog.
GetRepositories_IgnoresDecodeError(resp) ==
    IF resp.failed THEN [list |-> <<>>, err |-> TRUE]
    ELSE IF resp.status # StatusOK THEN [list |-> <<>>, err |-> TRUE]
    ELSE IF ~resp.decodes THEN [list |-> <<>>, err |-> FALSE]
    ELSE [list |-> Names(resp.n), err |-> FALSE]

GetRepositories(resp) ==
    IF resp.failed THEN [list |-> <<>>, err |-> TRUE]
    ELSE IF resp.status # StatusOK THEN [list |-> <<>>, err |-> TRUE]
    ELSE IF ~resp.decodes THEN [list |-> <<>>, err |-> TRUE]
    ELSE [list |-> Names(resp.n), err |-> FALSE]

GetTags(resp) ==
    IF resp.failed THEN [list |-> <<>>, err |-> TRUE]
    ELSE IF resp.status # StatusOK THEN [list |-> <<>>, err |-> TRUE]
    ELSE IF ~resp.decodes THEN [list |-> <<>>, err |-> TRUE]
    ELSE [list |-> Names(resp.n), err |-> FALSE]

(***************************************************************************)
(* CleanupRepository: the pieces of the retention plan                     *)
(***************************************************************************)
ImageInfo(repository, tag, digest, created) ==
    [Repository |-> repository, Tag |-> tag, Digest |-> digest, Created |-> created]

\* Variant: a repository of exactly keepLast tags is not skipped.
SkipRepository_Strict(n, k) == n < k

\* len(tags) <= keepLast: the repository is skipped.
SkipRepository(n, k) == n <= k

\* Variant: the comparison is Before.
Less_Before(a, b) == a.Created < b.Created

\* The less function of the sort: images[i].Created.After(images[j].Created).
Less(a, b) == a.Created > b.Created

IsPermutation(f, n) == \A i, j \in 1..n : i # j => f[i] # f[j]

\* Variant: the slice is left in any order.
SortSlice_AnyOrder(s) ==
    LET n == Len(s)
        perms == {f \in [1..n -> 1..n] : IsPermutation(f, n)}
    IN {[i \in 1..n |-> s[f[i]]] : f \in perms}

\* sort.Slice: the slice is left in an order in which no entry is less than
\* an entry before it; the order of entries that are not less than one
\* another is not determined (the sort is not stable).
SortSlice(s) ==
    LET n == Len(s)
        perms == {f \in [1..n -> 1..n] : IsPermutation(f, n)}
        sorted(t) == \A i, j \in 1..n : i < j => ~Less(t[j], t[i])
    IN {t \in {[i \in 1..n |-> s[f[i]]] : f \in perms} : sorted(t)}

\* The status printed for the entry at index i (from 0) of the sorted slice.
Status(i, k) == IF i >= k THEN "delete" ELSE "keep"

\* Variant: the zero time.Time returned with the error is kept.
CreatedOrNow_KeepsReturned(c, now) == c.created

\* created of the tag loop: what GetImageCreated returned, time.Now() when
\* it returned an error.
CreatedOrNow(c, now) == IF c.err THEN now ELSE c.created

\* Variant: the tag loop is left after its first iteration.
TagLoopDone_Early(i, n) == i > 1

\* The range loop over tags has handled every tag.
TagLoopDone(i, n) == i > n

\* len(images) > keepLast: there is something to delete.
HasExcess(n, k) == n > k

\* images[keepLast:] is a run-time panic when keepLast is out of range.
SliceInRange(s, k) == k >= 0 /\ k <= Len(s)
\* Variant: the slice starts one entry late.
SliceFrom_OffByOne(s, k) == SubSeq(s, k + 2, Len(s))
SliceFrom(s, k) == SubSeq(s, k + 1, Len(s))

\* img.Digest[:12] is a run-time panic when the digest is shorter.
DigestPrefixInRange(d) == Len(d) >= DigestPrefixLen

\* Variant: main stops at the first error of CleanupRepository.
AfterCleanupRepository_Abort(err) == IF err = "nil" THEN "loop" ELSE "fatal"

\* main: the error of CleanupRepository is printed and the loop goes on.
AfterCleanupRepository(err) == "loop"

Request(op, repository, tag, digest) ==
    [op |-> op, repo |-> repository, tag |-> tag, digest |-> digest]

\* The responses of the registry to the requests of one GetImageCreated call
\* made by CleanupRepository, one combination per path through the function.
OkV1(c) == [failed |-> FALSE, status |-> StatusOK,
            body |-> [decodes |-> TRUE, history |-> <<c>>]]
OkV2 == [failed |-> FALSE, status |-> StatusOK,
         body |-> [decodes |-> TRUE, configDigest |-> "sha256:cccccccccccccccc"]]
OkBlob(b) == [failed |-> FALSE, status |-> StatusOK, body |-> b]
FailedV1 == [failed |-> TRUE, status |-> 0, body |-> EmptyV1Body]
FailedV2 == [failed |-> TRUE, status |-> 0, body |-> EmptyV2Body]
FailedBlob == [failed |-> TRUE, status |-> 0, body |-> EmptyBlobBody]
NotFoundV1 == [failed |-> FALSE, status |-> StatusNotFound, body |-> EmptyV1Body]
NotFoundV2 == [failed |-> FALSE, status |-> StatusNotFound, body |-> EmptyV2Body]

CreatedPaths ==
    {<<FailedV1, FailedV2, FailedBlob>>,
     <<NotFoundV1, FailedV2, FailedBlob>>,
     <<NotFoundV1, NotFoundV2, FailedBlob>>,
     <<NotFoundV1, OkV2, FailedBlob>>}
    \cup {<<OkV1(c), OkV2, OkBlob(b)>> :
            c \in {x \in V1Compatibilities : x.parses},
            b \in {y \in BlobBodies : y.created = ZeroTime}}
    \cup {<<NotFoundV1, OkV2, OkBlob(b)>> : b \in {y \in BlobBodies : y.decodes}}

NoResponse == [failed |-> FALSE, status |-> 0, decodes |-> FALSE, n |-> 0]

IdleDelete ==
    [responses |-> <<[failed |-> TRUE, status |-> 0], [failed |-> TRUE, status |-> 0]>>,
     returned |-> FALSE, err |-> "nil", sent |-> 0]

IdleCall ==
    [urlValid |-> TRUE, v1 |-> CHOOSE r \in V1Responses : r.failed,
     v2 |-> CHOOSE r \in V2Responses : r.failed,
     blob |-> CHOOSE r \in BlobResponses : r.failed, now |-> 1,
     returned |-> FALSE, result |-> Result(ZeroTime, FALSE, FALSE, <<>>)]

(***************************************************************************)
(* main and CleanupRepository                                              *)
(***************************************************************************)
Init ==
    /\ pc = "main"
    /\ keepLast \in KeepLastValues
    /\ repositories = <<>>
    /\ repoIdx = 1
    /\ tags = <<>>
    /\ tagIdx = 1
    /\ images = <<>>
    /\ plan = <<>>
    /\ toDelete = <<>>
    /\ delIdx = 1
    /\ ret = "none"
    /\ results = <<>>
    /\ requests = <<>>
    /\ headFailed = {}
    /\ delFailed = FALSE
    /\ call = IdleCall
    /\ catalog = NoResponse
    /\ createdErr = FALSE
    /\ del = IdleDelete

\* main: GetRepositories, log.Fatalf on an error, return on an empty list.
main_GetRepositories ==
    /\ pc = "main"
    /\ \E resp \in ListResponses(MaxRepos) :
         LET r == GetRepositories(resp) IN
           /\ catalog' = resp
           /\ IF r.err THEN pc' = "fatal" /\ UNCHANGED repositories
              ELSE IF Len(r.list) = 0 THEN pc' = "empty" /\ UNCHANGED repositories
              ELSE pc' = "loop" /\ repositories' = r.list
    /\ UNCHANGED <<keepLast, repoIdx, tags, tagIdx, images, plan, toDelete, delIdx,
                   ret, results, requests, headFailed, delFailed, call, createdErr, del>>

\* CleanupRepository returns err to main, which goes to the next repository.
Return(err) ==
    /\ ret' = err
    /\ results' = Append(results, err)
    /\ pc' = AfterCleanupRepository(err)
    /\ repoIdx' = repoIdx + 1

\* CleanupRepository up to the tag loop: GetTags, return its error, skip the
\* repository when it has at most keepLast tags.
CleanupRepository_GetTags(maxTags) ==
    /\ pc = "loop"
    /\ repoIdx <= Len(repositories)
    /\ \E resp \in ListResponses(maxTags) :
         LET r == GetTags(resp) IN
           /\ tags' = r.list
           /\ IF r.err THEN Return("error")
              ELSE IF SkipRepository(Len(r.list), keepLast) THEN Return("nil")
              ELSE /\ ret' = "none"
                   /\ pc' = "resolve"
                   /\ UNCHANGED <<repoIdx, results>>
    /\ requests' = <<Request("tags", repositories[repoIdx], 0, "")>>
    /\ tagIdx' = 1
    /\ images' = <<>>
    /\ plan' = <<>>
    /\ toDelete' = <<>>
    /\ delIdx' = 1
    /\ headFailed' = {}
    /\ delFailed' = FALSE
    /\ createdErr' = FALSE
    /\ UNCHANGED <<keepLast, repositories, call, catalog, del>>

\* One iteration of the tag loop: GetManifestDigest, continue on its error;
\* GetImageCreated, time.Now() on its error; append to images.
CleanupRepository_ResolveTag ==
    /\ pc = "resolve"
    /\ tagIdx <= Len(tags)
    /\ LET repository == repositories[repoIdx]
           tag == tags[tagIdx]
       IN \E head \in HeadResponses :
            LET d == GetManifestDigest(head) IN
              /\ headFailed' = IF NoDigest(head) THEN headFailed \cup {tag} ELSE headFailed
              /\ IF d.err
                 THEN /\ requests' = Append(requests, Request("head", repository, tag, ""))
                      /\ createdErr' = FALSE
                      /\ UNCHANGED images
                 ELSE \E path \in CreatedPaths, now \in NowValues :
                     LET c == GetImageCreated(TRUE, path[1], path[2], path[3], now)
                         created == CreatedOrNow(c, now)
                     IN /\ createdErr' = c.err
                        /\ requests' = requests \o
                               <<Request("head", repository, tag, ""),
                                 Request("created", repository, tag, "")>>
                        /\ images' = Append(images,
                                            ImageInfo(repository, tag, d.digest, created))
    /\ tagIdx' = tagIdx + 1
    /\ UNCHANGED <<pc, keepLast, repositories, repoIdx, tags, plan, toDelete, delIdx,
                   ret, results, delFailed, call, catalog, del>>

\* After the tag loop: sort.Slice, the printed plan, and images[keepLast:]
\* when there are more than keepLast images; return nil otherwise.
CleanupRepository_Plan ==
    /\ pc = "resolve"
    /\ TagLoopDone(tagIdx, Len(tags))
    /\ createdErr' = FALSE
    /\ \E sorted \in SortSlice(images) :
         /\ images' = sorted
         /\ plan' = [i \in 1..Len(sorted) |-> Status(i - 1, keepLast)]
         /\ IF HasExcess(Len(sorted), keepLast)
            THEN IF SliceInRange(sorted, keepLast)
                 THEN /\ toDelete' = SliceFrom(sorted, keepLast)
                      /\ pc' = "delete"
                      /\ UNCHANGED <<ret, results, repoIdx>>
                 ELSE /\ pc' = "panic"
                      /\ UNCHANGED <<toDelete, ret, results, repoIdx>>
            ELSE /\ Return("nil")
                 /\ UNCHANGED toDelete
    /\ UNCHANGED <<keepLast, repositories, tags, tagIdx, delIdx, requests,
                   headFailed, delFailed, call, catalog, del>>

\* One iteration of the delete loop: print the digest prefix, DeleteManifest,
\* print its outcome; return nil after the last iteration.
CleanupRepository_Delete ==
    /\ pc = "delete"
    /\ delIdx <= Len(toDelete)
    /\ LET img == toDelete[delIdx] IN
         IF ~DigestPrefixInRange(img.Digest)
         THEN /\ pc' = "panic"
              /\ UNCHANGED <<delIdx, requests, delFailed, ret, results, repoIdx>>
         ELSE \E resp \in DeleteResponses :
                LET err == DeleteManifest(resp) IN
                  /\ requests' = Append(requests,
                                        Request("delete", img.Repository, img.Tag, img.Digest))
                  /\ delFailed' = (delFailed \/ err # "nil")
                  /\ delIdx' = delIdx + 1
                  /\ IF delIdx = Len(toDelete)
                     THEN Return("nil")
                     ELSE UNCHANGED <<pc, ret, results, repoIdx>>
    /\ UNCHANGED <<keepLast, repositories, tags, tagIdx, images, plan, toDelete,
                   headFailed, call, catalog, createdErr, del>>

\* main: the loop over the repositories has ended.
main_Done ==
    /\ pc = "loop"
    /\ repoIdx > Len(repositories)
    /\ pc' = "done"
    /\ UNCHANGED <<keepLast, repositories, repoIdx, tags, tagIdx, images, plan,
                   toDelete, delIdx, ret, results, requests, headFailed, delFailed, call, catalog, createdErr, del>>

Next ==
    \/ main_GetRepositories
    \/ CleanupRepository_GetTags(MaxRunTags)
    \/ CleanupRepository_ResolveTag
    \/ CleanupRepository_Plan
    \/ CleanupRepository_Delete
    \/ main_Done

Spec == Init /\ [][Next]_vars

(***************************************************************************)
(* One call of CleanupRepository, on a repository of up to MaxTags tags     *)
(***************************************************************************)
InitCleanup ==
    /\ pc = "loop"
    /\ keepLast \in KeepLastValues
    /\ repositories = Names(1)
    /\ repoIdx = 1
    /\ tags = <<>>
    /\ tagIdx = 1
    /\ images = <<>>
    /\ plan = <<>>
    /\ toDelete = <<>>
    /\ delIdx = 1
    /\ ret = "none"
    /\ results = <<>>
    /\ requests = <<>>
    /\ headFailed = {}
    /\ delFailed = FALSE
    /\ call = IdleCall
    /\ catalog = NoResponse
    /\ createdErr = FALSE
    /\ del = IdleDelete

NextCleanup ==
    \/ CleanupRepository_GetTags(MaxTags)
    \/ CleanupRepository_ResolveTag
    \/ CleanupRepository_Plan
    \/ CleanupRepository_Delete

SpecCleanup == InitCleanup /\ [][NextCleanup]_vars

(***************************************************************************)
(* GetImageCreated on its own: every combination of responses              *)
(***************************************************************************)
InitCreated ==
    /\ pc = "main"
    /\ keepLast = DefaultKeepLast
    /\ repositories = <<>>
    /\ repoIdx = 1
    /\ tags = <<>>
    /\ tagIdx = 1
    /\ images = <<>>
    /\ plan = <<>>
    /\ toDelete = <<>>
    /\ delIdx = 1
    /\ ret = "none"
    /\ results = <<>>
    /\ requests = <<>>
    /\ headFailed = {}
    /\ delFailed = FALSE
    /\ call \in [urlValid : BOOLEAN, v1 : V1Responses, v2 : V2Responses,
                 blob : BlobResponses, now : NowValues, returned : {FALSE},
                 result : {Result(ZeroTime, FALSE, FALSE, <<>>)}]
    /\ catalog = NoResponse
    /\ createdErr = FALSE
    /\ del = IdleDelete

Call_GetImageCreated ==
    /\ ~call.returned
    /\ call' = [call EXCEPT !.returned = TRUE,
                            !.result = GetImageCreated(call.urlValid, call.v1, call.v2,
                                                       call.blob, call.now)]
    /\ UNCHANGED <<pc, keepLast, repositories, repoIdx, tags, tagIdx, images, plan,
                   toDelete, delIdx, ret, results, requests, headFailed, delFailed,
                   catalog, createdErr, del>>

NextCreated == Call_GetImageCreated

SpecCreated == InitCreated /\ [][NextCreated]_vars

(***************************************************************************)
(* Properties                                                              *)
(***************************************************************************)
Range(s) == {s[i] : i \in 1..Len(s)}

\* The tags handled so far by the tag loop, and those of them for which the
\* registry gave a digest.
HandledTags == {tags[i] : i \in 1..Min(tagIdx - 1, Len(tags))}
ResolvedTags == HandledTags \ headFailed

\* The current or last CleanupRepository call is past the sort and the
\* printed plan.
Planned == pc \in {"delete", "panic"} \/ (ret = "nil" /\ ~(Len(tags) <= keepLast))

\* The current or last CleanupRepository call has ended: it returned or the
\* program panicked.
Ended == pc = "panic" \/ ret # "none"

Keep == {images[i] : i \in {j \in 1..Len(plan) : plan[j] = "keep"}}
Delete == Range(toDelete)
TagsOf(S) == {img.Tag : img \in S}

RequestsFor(op, tag) == {i \in 1..Len(requests) : requests[i].op = op /\ requests[i].tag = tag}
ManifestRequests == {i \in 1..Len(requests) : requests[i].op # "tags"}
DeleteRequests == {i \in 1..Len(requests) : requests[i].op = "delete"}

\* C1: once a DeleteManifest call of a repository has returned an error, the
\* call of CleanupRepository still ends by returning nil, with DeleteManifest
\* requested exactly once for every image of images[keepLast:].
C1_FailedDeleteNeverStopsDeletes ==
    (Ended /\ delFailed) =>
        /\ ret = "nil"
        /\ \A img \in Delete : Cardinality(RequestsFor("delete", img.Tag)) = 1

\* C2: with keepLast >= 0 and n > keepLast resolved images, the plan keeps
\* exactly keepLast images and deletes exactly n - keepLast, and every
\* resolved image is in exactly one of Keep and Delete.
C2_PlanPartition ==
    LET n == Cardinality(ResolvedTags) IN
      (Planned /\ keepLast >= 0 /\ n > keepLast) =>
          /\ Cardinality(Keep) = keepLast
          /\ Len(toDelete) = n - keepLast
          /\ Cardinality(Delete) = n - keepLast
          /\ TagsOf(Keep) \cap TagsOf(Delete) = {}
          /\ TagsOf(Keep) \cup TagsOf(Delete) = ResolvedTags

C2_Witness ==
    /\ Planned
    /\ keepLast = DefaultKeepLast
    /\ headFailed = {}
    /\ Cardinality(ResolvedTags) = DefaultKeepLast + 1
    /\ Cardinality(Keep) = DefaultKeepLast
    /\ Len(toDelete) = 1

\* C3: in every plan, every kept image is at least as new as every image
\* marked or taken for deletion.
C3_KeepNewerThanDelete ==
    Planned =>
        \A k \in Keep :
            /\ \A d \in Delete : k.Created >= d.Created
            /\ \A i \in 1..Len(plan) : plan[i] = "delete" => k.Created >= images[i].Created

C3_Witness ==
    /\ Planned
    /\ \E k \in Keep : \E d \in Delete : k.Created > d.Created
    /\ \E k \in Keep : \E d \in Delete : k.Created = d.Created

\* C4: with keepLast <= 0 and at least one resolved image, CleanupRepository
\* ends by returning nil with DeleteManifest requested for every resolved
\* image.
C4_NonPositiveKeepLastDeletesAll ==
    (Ended /\ keepLast <= 0 /\ ResolvedTags # {}) =>
        /\ ret = "nil"
        /\ \A t \in ResolvedTags : RequestsFor("delete", t) # {}

\* C5: a repository with at most keepLast tags gets no manifest request at
\* all, and one with at most keepLast resolved images gets no delete request
\* and an empty images[keepLast:].
C5_NothingDeletedWithinKeepLast ==
    /\ Len(tags) <= keepLast => ManifestRequests = {}
    /\ Cardinality(ResolvedTags) <= keepLast => (DeleteRequests = {} /\ toDelete = <<>>)

C5_Witness ==
    /\ keepLast = DefaultKeepLast
    /\ Len(tags) = DefaultKeepLast
    /\ ret = "nil"
    /\ Len(requests) = 1

\* C9: a tag for which the registry gave no digest is in no part of the
\* plan and gets no timestamp and no delete request, and every other handled
\* tag is in images (and, once planned, in Keep or Delete).
C9_UnresolvedTagExcluded ==
    /\ \A t \in headFailed :
          /\ t \notin TagsOf(Range(images)) \cup TagsOf(Keep) \cup TagsOf(Delete)
          /\ RequestsFor("created", t) = {}
          /\ RequestsFor("delete", t) = {}
    /\ \A t \in ResolvedTags :
          /\ t \in TagsOf(Range(images))
          /\ RequestsFor("created", t) # {}
          /\ (pc = "delete" \/ (Planned /\ ret = "nil")) =>
                 t \in TagsOf(Keep) \cup TagsOf(Delete)

C9_Witness ==
    /\ Planned
    /\ ret = "nil"
    /\ headFailed = {tags[1]}
    /\ Cardinality(ResolvedTags) = Len(tags) - 1
    /\ Keep # {}
    /\ DeleteRequests # {}

\* C10: a failed tag listing ends the call for that repository with the tag
\* list request as its only request, and the run goes on: it is never
\* aborted after such a failure, and it ends only when CleanupRepository has
\* been called for every repository of the catalog.
C10_TagListFailureIsRepositoryScoped ==
    /\ ret = "error" => (Len(requests) = 1 /\ requests[1].op = "tags")
    /\ "error" \in Range(results) => pc \in {"loop", "resolve", "delete", "done", "panic"}
    /\ pc \in {"loop", "resolve", "delete"} => Len(results) = repoIdx - 1
    /\ pc = "done" => Len(results) = Len(repositories)

C10_Witness ==
    /\ Len(results) >= 1
    /\ results[1] = "error"
    /\ pc = "delete"
    /\ repoIdx = Len(results) + 1

(***************************************************************************)
(* Properties of GetImageCreated                                           *)
(***************************************************************************)
\* The schema-v1 response is 200 with a non-empty history whose first entry
\* parses; the created field that entry carries, if any.
V1Parses(v1) ==
    /\ ~v1.failed
    /\ v1.status = StatusOK
    /\ v1.body.decodes
    /\ Len(v1.body.history) > 0
    /\ v1.body.history[1].parses
V1CarriesCreated(v1) == V1Parses(v1) /\ v1.body.history[1].hasCreated

\* The schema-v2 response names a config blob and the blob decodes; the
\* created field the blob carries, if any.
BlobDecodes(v2, blob) ==
    /\ ~v2.failed /\ v2.status = StatusOK /\ v2.body.decodes /\ v2.body.configDigest # ""
    /\ ~blob.failed /\ blob.status = StatusOK /\ blob.body.decodes
BlobCarriesCreated(v2, blob) == BlobDecodes(v2, blob) /\ blob.body.hasCreated

C7_FirstSuccessWins ==
    call.returned =>
        /\ (call.urlValid /\ V1Parses(call.v1)) =>
              /\ call.result.reqs = <<"v1">>
              /\ ~call.result.err
              /\ V1CarriesCreated(call.v1) =>
                     call.result.created = call.v1.body.history[1].created
        /\ "v2" \in Range(call.result.reqs) =>
              /\ ~V1Parses(call.v1)
              /\ call.result.reqs[1] = "v1" /\ call.result.reqs[2] = "v2"
        /\ "blob" \in Range(call.result.reqs) => call.result.reqs = <<"v1", "v2", "blob">>

C7_Witness ==
    /\ call.returned
    /\ call.urlValid
    /\ V1CarriesCreated(call.v1)
    /\ BlobCarriesCreated(call.v2, call.blob)
    /\ call.blob.body.created # call.v1.body.history[1].created
    /\ call.result.created = call.v1.body.history[1].created
    /\ call.result.reqs = <<"v1">>

\* C8: when GetImageCreated returns a timestamp and neither strategy has
\* yielded a created value, the timestamp is the current time and the
\* warning is printed; a timestamp returned without the warning is a created
\* value carried by a response.
C8_NoCreatedMeansEstimated ==
    (call.returned /\ ~call.result.err) =>
        /\ (~V1CarriesCreated(call.v1)
            /\ (V1Parses(call.v1) \/ ~BlobCarriesCreated(call.v2, call.blob))) =>
               (call.result.created = call.now /\ call.result.warned)
        /\ ~call.result.warned =>
               \/ /\ V1CarriesCreated(call.v1)
                  /\ call.result.created = call.v1.body.history[1].created
               \/ /\ BlobCarriesCreated(call.v2, call.blob)
                  /\ call.result.created = call.blob.body.created

(***************************************************************************)
(* DeleteManifest on its own: one call on every pair of responses.         *)
(***************************************************************************)
InitDelete ==
    /\ pc = "main"
    /\ keepLast = DefaultKeepLast
    /\ repositories = <<>>
    /\ repoIdx = 1
    /\ tags = <<>>
    /\ tagIdx = 1
    /\ images = <<>>
    /\ plan = <<>>
    /\ toDelete = <<>>
    /\ delIdx = 1
    /\ ret = "none"
    /\ results = <<>>
    /\ requests = <<>>
    /\ headFailed = {}
    /\ delFailed = FALSE
    /\ call = IdleCall
    /\ catalog = NoResponse
    /\ createdErr = FALSE
    /\ del \in [responses : DeleteResponses \X DeleteResponses, returned : {FALSE},
                err : {"nil"}, sent : {0}]

Call_DeleteManifest ==
    /\ ~del.returned
    /\ LET r == DeleteManifestCall(del.responses) IN
         del' = [del EXCEPT !.returned = TRUE, !.err = r.err, !.sent = r.sent]
    /\ UNCHANGED <<pc, keepLast, repositories, repoIdx, tags, tagIdx, images, plan,
                   toDelete, delIdx, ret, results, requests, headFailed, delFailed,
                   call, catalog, createdErr>>

NextDelete == Call_DeleteManifest

SpecDelete == InitDelete /\ [][NextDelete]_vars

(***************************************************************************)
(* The program as main runs it: keepLast is 2, and every step that can be  *)
(* taken is eventually taken, because main is one sequential goroutine and *)
(* every HTTP call returns or times out after the client's 30 seconds.     *)
(***************************************************************************)
InitMain == Init /\ keepLast = DefaultKeepLast

NextMain ==
    \/ main_GetRepositories
    \/ CleanupRepository_GetTags(MaxTags)
    \/ CleanupRepository_ResolveTag
    \/ CleanupRepository_Plan
    \/ CleanupRepository_Delete
    \/ main_Done

SpecMain == InitMain /\ [][NextMain]_vars /\ WF_vars(NextMain)

(***************************************************************************)
(* Whole-run claims                                                        *)
(***************************************************************************)
\* The catalog request of main failed: transport error, status other than
\* 200, or a body that does not decode.
CatalogFailed == catalog.failed \/ catalog.status # StatusOK \/ ~catalog.decodes

\* C11: the run is in its fatal exit exactly when listing the repositories
\* failed (transport error, non-200 status or undecodable catalog body); no
\* other error of the run is fatal, and in the fatal exit no repository was
\* entered and no tag-list, manifest, blob or delete request was issued.
C11_CatalogFailureIsTheOnlyFatalError ==
    /\ pc # "main" => (pc = "fatal" <=> CatalogFailed)
    /\ pc = "fatal" =>
          /\ requests = <<>>
          /\ results = <<>>
          /\ repositories = <<>>
          /\ repoIdx = 1

C11_Witness ==
    /\ pc = "fatal"
    /\ ~catalog.failed
    /\ catalog.status = StatusOK
    /\ ~catalog.decodes

\* C12: once the catalog has been listed with at least one repository, the
\* run eventually reaches its completion message and exits successfully,
\* whatever the tag lists, digests, timestamps and delete responses are.
C12_RunReachesCompletion == (pc = "loop") ~> (pc = "done")

(***************************************************************************)
(* The plan as a function of the resolved entries                          *)
(***************************************************************************)
\* The call has just cut the sorted slice: nothing is deleted yet.
JustPlanned == pc = "delete" /\ delIdx = 1

\* Every order the sort can leave the same entries in, over all the orders
\* in which the tag loop can have appended them.
Sortings == SortSlice(images)

\* The kept and the deleted entries of a sorted slice, and its timestamps in
\* order.
KeepOf(t) == {t[i] : i \in {j \in 1..Len(t) : Status(j - 1, keepLast) = "keep"}}
DeleteOf(t) == {t[i] : i \in {j \in 1..Len(t) : Status(j - 1, keepLast) = "delete"}}
CreatedOf(t) == [i \in 1..Len(t) |-> t[i].Created]

\* No kept image has the timestamp of a deleted one.
NoTieAcrossCut == \A k \in Keep : \A d \in Delete : k.Created # d.Created

\* C13 (as stated): whatever order the same (tag, digest, Created) entries
\* are listed and sorted in, ties included, the set of kept images and the
\* set of deleted images are the same.
C13_PartitionIndependentOfOrder ==
    JustPlanned =>
        \A t \in Sortings : KeepOf(t) = Keep /\ DeleteOf(t) = Delete

\* C13 (amended): whatever order the same entries are listed and sorted in,
\* the timestamps kept and deleted are the same, position by position, and
\* the sets of kept and of deleted images are the same whenever no kept
\* image has the timestamp of a deleted one.
C13_PartitionIndependentOfOrderUpToTies ==
    JustPlanned =>
        \A t \in Sortings :
            /\ CreatedOf(t) = CreatedOf(images)
            /\ NoTieAcrossCut => (KeepOf(t) = Keep /\ DeleteOf(t) = Delete)

C13_Witness ==
    /\ JustPlanned
    /\ Keep # {}
    /\ NoTieAcrossCut
    /\ Cardinality(Sortings) > 1

\* C14: the sort is stable: two resolved images with equal Created are in
\* the sorted plan in the order in which their tags were in the tag list.
C14_SortIsStable ==
    JustPlanned =>
        \A i, j \in 1..Len(images) :
            (i < j /\ images[i].Created = images[j].Created) =>
                images[i].Tag < images[j].Tag

(***************************************************************************)
(* Properties of DeleteManifest                                            *)
(***************************************************************************)
\* C15: DeleteManifest returns nil exactly for a response with status 200
\* or 202; a transport failure is an error; every other status gives the
\* error of its class (405 delete unsupported, 404 not found, 401
\* unauthorized, 403 forbidden, anything else the generic status error);
\* and the call sends one request whatever the response is.
C15_DeleteManifestClassifiesByStatus ==
    del.returned =>
        LET resp == del.responses[1] IN
          /\ del.err = "nil" <=>
                (~resp.failed /\ resp.status \in {StatusOK, StatusAccepted})
          /\ resp.failed => del.err = "request failed"
          /\ ~resp.failed =>
                /\ del.err = "delete unsupported" <=> resp.status = StatusMethodNotAllowed
                /\ del.err = "not found" <=> resp.status = StatusNotFound
                /\ del.err = "unauthorized" <=> resp.status = StatusUnauthorized
                /\ del.err = "forbidden" <=> resp.status = StatusForbidden
                /\ del.err = "status" <=>
                      resp.status \notin {StatusOK, StatusAccepted, StatusMethodNotAllowed,
                                          StatusNotFound, StatusUnauthorized, StatusForbidden}
          /\ del.sent = 1

C15_Witness ==
    /\ del.returned
    /\ ~del.responses[1].failed
    /\ del.responses[1].status = StatusNotFound
    /\ del.responses[2].status = StatusOK
    /\ del.err = "not found"
    /\ del.sent = 1

(***************************************************************************)
(* Properties of the delete loop                                           *)
(***************************************************************************)
\* C16: no DeleteManifest request of a repository is for a digest that an
\* image of Keep has, also when several tags point at the same digest.
C16_NoDeleteOfKeptDigest ==
    \A i \in DeleteRequests : requests[i].digest \notin {k.Digest : k \in Keep}

\* C17: whatever non-empty digest the registry returned for an image of
\* images[keepLast:], the delete loop reaches its DeleteManifest call: the
\* program is never in a crashed state inside the delete loop.
C17_DeleteLoopNeverPanics == ~(pc = "panic" /\ toDelete # <<>>)

(***************************************************************************)
(* Properties of the tag loop                                              *)
(***************************************************************************)
\* C18: when GetImageCreated returns an error for a tag whose digest was
\* resolved, the tag is appended to images with the current time, the call
\* stays in its tag loop, and the plan is made only when every tag has been
\* handled, with every resolved tag in images.
C18_TimestampFailureKeepsTag ==
    /\ createdErr =>
          /\ pc = "resolve"
          /\ ret = "none"
          /\ images # <<>>
          /\ images[Len(images)].Tag = tags[tagIdx - 1]
          /\ images[Len(images)].Created \in NowValues
    /\ pc = "resolve" => TagsOf(Range(images)) = ResolvedTags
    /\ pc = "delete" =>
          /\ HandledTags = Range(tags)
          /\ TagsOf(Range(images)) = ResolvedTags

C18_Witness ==
    /\ createdErr
    /\ Len(tags) = DefaultKeepLast + 1
    /\ tagIdx = Len(tags)
    /\ Len(images) = tagIdx - 1

(***************************************************************************)
(* Order of the requests                                                   *)
(***************************************************************************)
\* A call of CleanupRepository is in progress, or the program panicked in it.
InCall == pc \in {"resolve", "delete", "panic"}

\* C19: within a repository no digest or timestamp request follows a delete
\* request, the requests of the tag loop are in tag-list order, the first
\* delete request comes when every tag has had its digest request and every
\* resolved tag its timestamp request; every request of a call is for the
\* repository of that call, and the call for a repository begins only when
\* the calls for all earlier repositories of the catalog have returned.
C19_RequestsPhaseOrdered ==
    /\ \A i, j \in 1..Len(requests) :
          i < j =>
            /\ requests[j].op # "tags"
            /\ requests[i].op = "delete" => requests[j].op = "delete"
            /\ (requests[i].op \in {"head", "created"} /\ requests[j].op \in {"head", "created"})
                  => requests[i].tag <= requests[j].tag
            /\ (requests[i].tag = requests[j].tag /\ requests[j].op = "head")
                  => requests[i].op = "tags"
    /\ DeleteRequests # {} =>
          \A t \in Range(tags) :
              /\ RequestsFor("head", t) # {}
              /\ t \notin headFailed => RequestsFor("created", t) # {}
    /\ \A i \in 1..Len(requests) :
          /\ Len(results) = repoIdx - 1
          /\ requests[i].repo = repositories[IF InCall THEN repoIdx ELSE repoIdx - 1]

C19_Witness ==
    /\ pc = "delete"
    /\ repoIdx = 2
    /\ Len(tags) = 2
    /\ headFailed = {}
    /\ DeleteRequests # {}

====
